---- MODULE Spec2Model ----
(***************************************************************************)
(* Tornado-style shielded pool on Solana (programs/tornado_solana).        *)
(*                                                                         *)
(* The model follows src/programs/tornado_solana/src/lib.rs and            *)
(* merkle_tree.rs.  One action per instruction; an instruction is one      *)
(* atomic transaction: when any step of it fails the host unwinds every    *)
(* effect, so a failing instruction changes nothing but the record of the  *)
(* last transaction.                                                       *)
(*                                                                         *)
(* 32-byte values are finite sequences of naturals.  <<0>> is [0u8; 32].   *)
(* A Poseidon digest is the prefix-coded term of its inputs, so distinct   *)
(* inputs give distinct digests (collision resistance).                    *)
(***************************************************************************)
EXTENDS Naturals, Sequences, FiniteSets, TLC

\* ------------------------------------------------------------------ bounds
\* Tree depth (MERKLE_TREE_HEIGHT is 20 in the program) scaled down.
LEVELS == 2
\* Ring size (ROOT_HISTORY_SIZE is 30 in the program) scaled down.
ROOT_HISTORY_SIZE == 3
\* Lamports that outside parties may send to the pool state account.
MaxExternal == 1

\* ------------------------------------------------------------ byte values
ZeroBytes == <<0>>
\* A 32-byte value that is not a canonical BN254 field element ([0xff; 32]).
OversizeBytes == <<9>>
\* A 32-byte value that is no digest and no leaf.
StrayBytes == <<7>>

Commitments == {<<1>>}
NullifierHashes == {<<11>>, <<12>>}

\* light-poseidon rejects an input that is not below the field modulus.
Canonical(b) == b # OversizeBytes

\* MerkleTree::hash_left_right: Poseidon(2), all-zero on a hasher error.
hash_left_right(left, right) ==
    IF Canonical(left) /\ Canonical(right)
    THEN <<102>> \o left \o right
    ELSE ZeroBytes

\* MerkleTree::hash_leaf: Poseidon(1), all-zero on a hasher error.
hash_leaf(data) ==
    IF Canonical(data) THEN <<101>> \o data ELSE ZeroBytes

RECURSIVE Pow2(_)
Pow2(n) == IF n = 0 THEN 1 ELSE 2 * Pow2(n - 1)

\* ------------------------------------------------------------ merkle tree
\* Arrays are 0-based in the program and 1-based here: level i is entry i+1.
RECURSIVE zero_at(_)
zero_at(i) ==
    IF i = 0 THEN hash_leaf(ZeroBytes)
    ELSE hash_left_right(zero_at(i - 1), zero_at(i - 1))

generate_zeros == [i \in 1..LEVELS |-> zero_at(i - 1)]

MerkleTree_new_depth_root ==
    [levels          |-> LEVELS,
     filled_subtrees |-> [i \in 1..LEVELS |-> generate_zeros[i]],
     zeros           |-> generate_zeros,
     current_root    |-> hash_left_right(generate_zeros[LEVELS], generate_zeros[LEVELS]),
     next_index      |-> 0]

MerkleTree_new ==
    [levels          |-> LEVELS,
     filled_subtrees |-> [i \in 1..LEVELS |-> generate_zeros[i]],
     zeros           |-> generate_zeros,
     current_root    |-> generate_zeros[LEVELS],
     next_index      |-> 0]

get_root_frontier(tree) == tree.filled_subtrees[tree.levels]

get_root(tree) == tree.current_root

tree_has_room_off_by_one(tree) == tree.next_index <= Pow2(tree.levels)

\* The require! at the head of insert.
tree_has_room(tree) == tree.next_index < Pow2(tree.levels)

\* The body of insert's for loop from level i on.
RECURSIVE insert_loop(_, _, _, _, _)
insert_loop(tree, i, current_index, current_level_hash, filled) ==
    IF i = tree.levels
    THEN [hash |-> current_level_hash, filled |-> filled]
    ELSE IF current_index % 2 = 0
         THEN insert_loop(tree, i + 1, current_index \div 2,
                          hash_left_right(current_level_hash, tree.zeros[i + 1]),
                          [filled EXCEPT ![i + 1] = current_level_hash])
         ELSE insert_loop(tree, i + 1, current_index \div 2,
                          hash_left_right(filled[i + 1], current_level_hash),
                          filled)

insert_returns_next_index(tree, leaf) ==
    IF ~tree_has_room(tree)
    THEN [ok |-> FALSE, tree |-> tree, index |-> 0]
    ELSE LET r == insert_loop(tree, 0, tree.next_index, leaf, tree.filled_subtrees)
         IN  [ok    |-> TRUE,
              tree  |-> [tree EXCEPT !.filled_subtrees = r.filled,
                                     !.current_root = r.hash,
                                     !.next_index = tree.next_index + 1],
              index |-> tree.next_index + 1]

\* MerkleTree::insert: Err(MerkleTreeFull) leaves the tree as it was.
insert(tree, leaf) ==
    IF ~tree_has_room(tree)
    THEN [ok |-> FALSE, tree |-> tree, index |-> 0]
    ELSE LET r == insert_loop(tree, 0, tree.next_index, leaf, tree.filled_subtrees)
         IN  [ok    |-> TRUE,
              tree  |-> [tree EXCEPT !.filled_subtrees = r.filled,
                                     !.current_root = r.hash,
                                     !.next_index = tree.next_index + 1],
              index |-> tree.next_index]

\* The loop of get_proof from level i on.
RECURSIVE get_proof_loop(_, _, _)
get_proof_loop(tree, i, index) ==
    IF i = tree.levels THEN <<>>
    ELSE <<IF index % 2 = 0 THEN tree.zeros[i + 1] ELSE tree.filled_subtrees[i + 1]>>
           \o get_proof_loop(tree, i + 1, index \div 2)

get_proof_of_first_leaf(tree, leaf_index) == tree.zeros

\* MerkleTree::get_proof: one sibling per level, zeros[i] where the node is a
\* left child and filled_subtrees[i] where it is a right child.
get_proof(tree, leaf_index) == get_proof_loop(tree, 0, leaf_index)

\* The loop of MerkleTree::verify_proof over the siblings from position n on.
RECURSIVE verify_proof_loop(_, _, _, _)
verify_proof_loop(proof, n, computed_hash, current_index) ==
    IF n > Len(proof) THEN computed_hash
    ELSE verify_proof_loop(proof, n + 1,
                           IF current_index % 2 = 0
                           THEN hash_left_right(computed_hash, proof[n])
                           ELSE hash_left_right(proof[n], computed_hash),
                           current_index \div 2)

\* MerkleTree::verify_proof
MerkleTree_verify_proof(root, leaf, proof, index) ==
    verify_proof_loop(proof, 1, leaf, index) = root

\* ------------------------------------------------------------ root history
\* The scan of is_known_root from slot i, having started at current_index.
RECURSIVE known_root_scan(_, _, _, _)
known_root_scan(rts, current_index, root, i) ==
    IF rts[i + 1] = root THEN TRUE
    ELSE LET j == IF i = 0 THEN ROOT_HISTORY_SIZE - 1 ELSE i - 1
         IN  IF j = current_index THEN FALSE
             ELSE known_root_scan(rts, current_index, root, j)

is_known_root_no_sentinel(rts, current_index, root) ==
    known_root_scan(rts, current_index, root, current_index)

\* A scan that stops when it reaches slot 0 instead of wrapping.
RECURSIVE known_root_scan_no_wrap(_, _, _)
known_root_scan_no_wrap(rts, root, i) ==
    IF rts[i + 1] = root THEN TRUE
    ELSE IF i = 0 THEN FALSE
    ELSE known_root_scan_no_wrap(rts, root, i - 1)

is_known_root_no_wrap(rts, current_index, root) ==
    IF root = ZeroBytes THEN FALSE
    ELSE known_root_scan_no_wrap(rts, root, current_index)

is_known_root(rts, current_index, root) ==
    IF root = ZeroBytes THEN FALSE
    ELSE known_root_scan(rts, current_index, root, current_index)

next_root_index_short_ring(current_index) ==
    (current_index + 1) % (ROOT_HISTORY_SIZE - 1)

\* deposit: the ring cursor after one more accepted root.
next_root_index(current_index) == (current_index + 1) % ROOT_HISTORY_SIZE

\* ------------------------------------------------------------ host runtime
\* Recipients and relayers.
Keys == {"bob", "carol"}
\* Depositors: alice is funded, erin holds nothing.
Depositors == {"alice", "erin"}
\* An executable (program) account.
ProgramKey == "prog"
VaultPDA == "vault"
StatePDA == "state"
PayerKey == "payer"
\* Option::None for an optional key or account.
None == "none"

Accounts == Keys \cup Depositors \cup {ProgramKey, VaultPDA, StatePDA, PayerKey}

executable_flag_ignored(account) == FALSE

executable(account) == account = ProgramKey

\* Rent::minimum_balance: grows with the account's data size, above a fixed
\* storage overhead.
minimum_balance(space) == 128 + space

MerkleTree_SIZE == 4 + (32 * 20) + (32 * 20) + 32 + 4
TornadoState_MAX_SIZE == 32 + 8 + MerkleTree_SIZE + (32 * 30) + 4 + 4 + 2048

\* space = 0 (vault), space = 8 (nullifier), space = 8 + MAX_SIZE (pool state).
VaultRent == minimum_balance(0)
NullifierRent == minimum_balance(8)
StateRent == minimum_balance(8 + TornadoState_MAX_SIZE)

\* system_program::transfer; the caller has checked lamports[from] >= amount.
transfer(lam, from, to, amount) ==
    IF from = to THEN lam
    ELSE [lam EXCEPT ![from] = lam[from] - amount, ![to] = lam[to] + amount]

\* ------------------------------------------------------------ verifying key
\* A blob is described by what deserialize_verifying_key reads of it: the
\* count in its first four bytes, its length, whether each of the four curve
\* fields is entirely zero, and which setup its curve points come from.
GoodVK == [nr_pubinputs |-> 8, len |-> 452 + 64 * 9,
           alpha_zero |-> FALSE, beta_zero |-> FALSE,
           gamma_zero |-> FALSE, delta_zero |-> FALSE,
           key |-> "ceremony"]
ZeroInputsVK == [GoodVK EXCEPT !.nr_pubinputs = 0]
VKBlobs == {GoodVK, ZeroInputsVK}

MIN_VK_SIZE == 4 + 64 + 128 + 128 + 128 + 64

nr_pubinputs_in_bounds_below_100(nr_pubinputs) ==
    ~(nr_pubinputs = 0 \/ nr_pubinputs >= 100)

\* The bounds check on the count of public inputs.
nr_pubinputs_in_bounds(nr_pubinputs) ==
    ~(nr_pubinputs = 0 \/ nr_pubinputs > 100)

\* TRUE when deserialize_verifying_key returns Ok.
deserialize_verifying_key(vk) ==
    /\ ~(vk.len < MIN_VK_SIZE)
    /\ nr_pubinputs_in_bounds(vk.nr_pubinputs)
    /\ ~(vk.len < 4 + 64 + 128 + 128 + 128 + (vk.nr_pubinputs + 1) * 64)
    /\ ~(vk.alpha_zero \/ vk.beta_zero \/ vk.gamma_zero \/ vk.delta_zero)

\* The key compiled into the program (verifying_key.rs), used by tests only.
get_withdraw_verifying_key == [nr_pubinputs |-> 8, key |-> "embedded"]

stored_vk_code_embedded(vk) == get_withdraw_verifying_key

\* The Groth16Verifyingkey that deserialize_verifying_key builds from a blob
\* it accepts, which withdraw hands to verify_proof.
stored_vk(vk) == [nr_pubinputs |-> vk.nr_pubinputs, key |-> vk.key]

\* ------------------------------------------------------------------ state
VARIABLES
    authority,           \* TornadoState.authority
    denomination,        \* TornadoState.denomination
    verifying_key,       \* TornadoState.verifying_key
    merkle_tree,         \* TornadoState.merkle_tree
    roots,               \* TornadoState.roots
    current_root_index,  \* TornadoState.current_root_index
    nullifiers,          \* nullifier hashes whose nullifier PDA exists
    lamports,            \* balance of every account
    leaves,              \* history: leaves of the successful deposits, in order
    deposit_roots,       \* history: current_root right after each successful deposit
    withdrawn,           \* history: nullifier_hash of each successful withdrawal
    last                 \* the last transaction: instruction, result, event emitted

pool == <<authority, denomination, verifying_key, merkle_tree, roots, current_root_index>>
history == <<leaves, deposit_roots, withdrawn>>
vars == <<authority, denomination, verifying_key, merkle_tree, roots,
          current_root_index, nullifiers, lamports, leaves, deposit_roots,
          withdrawn, last>>

Capacity == Pow2(LEVELS)

NoEvent == [name |-> "none"]
DepositEvent(commitment, leaf_index) ==
    [name |-> "DepositEvent", commitment |-> commitment, leaf_index |-> leaf_index]
WithdrawalEvent(to, nullifier_hash, relayer, fee) ==
    [name |-> "WithdrawalEvent", to |-> to, nullifier_hash |-> nullifier_hash,
     relayer |-> relayer, fee |-> fee]
MigrationEvent(amount_migrated) ==
    [name |-> "MigrationEvent", amount_migrated |-> amount_migrated]

Outcome(op, err, event) == [op |-> op, err |-> err, event |-> event]

\* A transaction that failed: the host unwinds it and nothing is emitted.
Aborted(op, err) ==
    /\ last' = Outcome(op, err, NoEvent)
    /\ UNCHANGED <<pool, nullifiers, lamports, history>>

commit_keeps_partial_effects(err, before, after) == after

\* The host's transaction semantics: what an instruction did to an account
\* is kept when it returns Ok and unwound when it returns an error.
commit(err, before, after) == IF err = "Ok" THEN after ELSE before

\* initialize, by authority "alice" who funds the two new accounts; the
\* account data of a created account is all zero.
PoolCreatedWith(blobs, denominations) ==
    /\ authority = "alice"
    /\ denomination \in denominations
    /\ verifying_key \in blobs
    /\ merkle_tree = MerkleTree_new
    /\ roots = [i \in 1..ROOT_HISTORY_SIZE |-> ZeroBytes]
    /\ current_root_index = 0
    /\ nullifiers = {}
    /\ lamports = [a \in Accounts |->
                     CASE a = VaultPDA -> VaultRent
                       [] a = StatePDA -> StateRent
                       [] a = "alice"  -> denomination * (Capacity + 1)
                       [] a = PayerKey -> NullifierRent * Cardinality(NullifierHashes)
                       [] OTHER        -> 0]
    /\ leaves = <<>>
    /\ deposit_roots = <<>>
    /\ withdrawn = <<>>
    /\ last = Outcome("initialize", "Ok", NoEvent)

PoolCreated(blobs) == PoolCreatedWith(blobs, {2})

Init == PoolCreated(VKBlobs)

tornado_state_init_if_needed(lam) == "Ok"

\* The init constraint on the pool state PDA: the system program refuses to
\* create an account at an address that is in use, and the address holds the
\* pool from the first initialize on (an account exists while it holds
\* lamports; no instruction closes the pool state account).
tornado_state_init(lam) ==
    IF lam[StatePDA] > 0 THEN "AccountAlreadyInUse" ELSE "Ok"

\* A later initialize: the handler runs only when the init constraints have
\* passed; it writes the pool fields and leaves roots[] as they are.
Initialize(signer, new_denomination, vk) ==
    IF tornado_state_init(lamports) # "Ok"
    THEN Aborted("initialize", tornado_state_init(lamports))
    ELSE /\ authority' = signer
         /\ denomination' = new_denomination
         /\ merkle_tree' = MerkleTree_new
         /\ current_root_index' = 0
         /\ verifying_key' = vk
         /\ last' = Outcome("initialize", "Ok", NoEvent)
         /\ UNCHANGED <<roots, nullifiers, lamports, history>>

\* validate_vault_pda: the key is re-derived from the seeds; the bump and the
\* owner are those the account constraints (seeds, bump, SystemAccount) have
\* established before the handler runs.
validate_vault_pda(vault) ==
    IF vault # VaultPDA THEN "VaultMismatch" ELSE "Ok"

update_root_history_write_then_advance(rts, current_index, new_root) ==
    [roots |-> [rts EXCEPT ![current_index + 1] = new_root],
     current_root_index |-> next_root_index(current_index)]

\* deposit: the ring after writing new_root at the advanced cursor.
update_root_history(rts, current_index, new_root) ==
    [roots |-> [rts EXCEPT ![next_root_index(current_index) + 1] = new_root],
     current_root_index |-> next_root_index(current_index)]

deposit_result_refusing_last_leaf(lam, tree, depositor, commitment) ==
    IF validate_vault_pda(VaultPDA) # "Ok" THEN validate_vault_pda(VaultPDA)
    ELSE IF lam[depositor] < denomination THEN "InsufficientFunds"
    ELSE IF tree.next_index > 0 /\ commitment = tree.filled_subtrees[1]
         THEN "DuplicateCommitment"
    ELSE IF ~insert(tree, commitment).ok THEN "MerkleTreeFull"
    ELSE "Ok"

\* The first failing step of deposit, or "Ok".
deposit_result(lam, tree, depositor, commitment) ==
    IF validate_vault_pda(VaultPDA) # "Ok" THEN validate_vault_pda(VaultPDA)
    ELSE IF lam[depositor] < denomination THEN "InsufficientFunds"
    ELSE IF ~insert(tree, commitment).ok THEN "MerkleTreeFull"
    ELSE "Ok"

\* deposit as the handler runs it: the result, and the accounts as they are
\* when the handler returns, the transfer having been issued before insert.
deposit_run(lam, tree, rts, current_index, depositor, commitment) ==
    LET err == deposit_result(lam, tree, depositor, commitment)
        transferred == transfer(lam, depositor, VaultPDA, denomination)
        ins == insert(tree, commitment)
        ring == update_root_history(rts, current_index, get_root(ins.tree))
    IN  [err                |-> err,
         lamports           |-> IF err \in {"Ok", "MerkleTreeFull"}
                                THEN transferred ELSE lam,
         merkle_tree        |-> IF err = "Ok" THEN ins.tree ELSE tree,
         roots              |-> IF err = "Ok" THEN ring.roots ELSE rts,
         current_root_index |-> IF err = "Ok" THEN ring.current_root_index
                                ELSE current_index,
         leaf_index         |-> ins.index]

Deposit(depositor, commitment) ==
    LET run == deposit_run(lamports, merkle_tree, roots, current_root_index,
                           depositor, commitment)
    IN  /\ lamports' = commit(run.err, lamports, run.lamports)
        /\ merkle_tree' = commit(run.err, merkle_tree, run.merkle_tree)
        /\ roots' = commit(run.err, roots, run.roots)
        /\ current_root_index' = commit(run.err, current_root_index,
                                        run.current_root_index)
        /\ leaves' = IF run.err = "Ok" THEN Append(leaves, commitment) ELSE leaves
        /\ deposit_roots' = IF run.err = "Ok"
                            THEN Append(deposit_roots, run.merkle_tree.current_root)
                            ELSE deposit_roots
        /\ last' = Outcome("deposit", run.err,
                            IF run.err = "Ok"
                            THEN DepositEvent(commitment, run.leaf_index)
                            ELSE NoEvent)
        /\ UNCHANGED <<authority, denomination, verifying_key, nullifiers, withdrawn>>

\* ------------------------------------------------------------------ withdraw
\* A proof is described by what verify_proof reads of it: its length, whether
\* its A is a curve point, and the key under which the pairing check passes
\* for the public inputs of this call (None: under no key).
Proof(len, a, valid_for) == [len |-> len, a |-> a, valid_for |-> valid_for]

\* Proofs a caller may submit: valid under the ceremony key, valid under the
\* key compiled into the program, failing the pairing check, with an A that
\* is no curve point, and truncated to 200 bytes.
ProofKinds ==
    {Proof(256, "point", "ceremony"), Proof(256, "point", "embedded"),
     Proof(256, "point", None), Proof(256, "no_point", None),
     Proof(200, "point", "ceremony")}

proof_length_ok_at_least_256(len) == len >= 256

\* The require! at the head of verify_proof.
proof_length_ok(len) == len = 256

\* verify_proof: the first failing step, or "Ok".
verify_proof(proof, vk) ==
    IF ~proof_length_ok(proof.len) THEN "InvalidProofLength"
    ELSE IF proof.a # "point" THEN "ProofNegationFailed"
    ELSE IF proof.valid_for # vk.key THEN "InvalidProof"
    ELSE "Ok"

nullifier_init_if_needed(nulls, nullifier_hash) == "Ok"

\* The init constraint on the nullifier PDA: the system program refuses to
\* create an account at an address that is in use.  The address is taken to
\* be derived from the nullifier_hash argument of withdraw, as the seeds
\* expression names it.
nullifier_init(nulls, nullifier_hash) ==
    IF nullifier_hash \in nulls THEN "AccountAlreadyInUse" ELSE "Ok"

create_nullifier_dropped(nulls, nullifier_hash) == nulls

\* The nullifier PDAs once the init constraint has created this one.
create_nullifier(nulls, nullifier_hash) == nulls \cup {nullifier_hash}

\* a.saturating_sub(b) on u64
saturating_sub(a, b) == IF a < b THEN 0 ELSE a - b

\* denomination and fee are u64, scaled to U64_BITS bits.  a - b and a + b on
\* u64 wrap in a build without overflow checks and abort the transaction in a
\* build with them; the wrapped value is what the later steps would see.
U64_BITS == 3

U64_MAX == Pow2(U64_BITS) - 1

u64_sub(a, b) == (a - b + Pow2(U64_BITS)) % Pow2(U64_BITS)

u64_add(a, b) == (a + b) % Pow2(U64_BITS)

fee_within_denomination_off_by_one(fee, denom) == fee <= denom + 1

\* The require! at the head of the handler.
fee_within_denomination(fee, denom) == fee <= denom

\* Account validation and the handler up to the vault check: the first
\* failing step, or "Ok".
withdraw_checks_fee_before_nullifier(nulls, rts, current_index, vk, denom, proof, root, nullifier_hash, fee) ==
    IF ~fee_within_denomination(fee, denom) THEN "FeeExceedsDenomination"
    ELSE IF nullifier_init(nulls, nullifier_hash) # "Ok"
         THEN nullifier_init(nulls, nullifier_hash)
    ELSE IF ~is_known_root(rts, current_index, root) THEN "UnknownRoot"
    ELSE IF ~deserialize_verifying_key(vk) THEN "InvalidVerifyingKey"
    ELSE IF verify_proof(proof, stored_vk(vk)) # "Ok"
         THEN verify_proof(proof, stored_vk(vk))
    ELSE validate_vault_pda(VaultPDA)

withdraw_checks_proof_before_root(nulls, rts, current_index, vk, denom, proof, root, nullifier_hash, fee) ==
    IF nullifier_init(nulls, nullifier_hash) # "Ok" THEN nullifier_init(nulls, nullifier_hash)
    ELSE IF ~fee_within_denomination(fee, denom) THEN "FeeExceedsDenomination"
    ELSE IF ~deserialize_verifying_key(vk) THEN "InvalidVerifyingKey"
    ELSE IF verify_proof(proof, stored_vk(vk)) # "Ok"
         THEN verify_proof(proof, stored_vk(vk))
    ELSE IF ~is_known_root(rts, current_index, root) THEN "UnknownRoot"
    ELSE validate_vault_pda(VaultPDA)

withdraw_checks_key_not_decoded(nulls, rts, current_index, vk, denom, proof, root, nullifier_hash, fee) ==
    IF nullifier_init(nulls, nullifier_hash) # "Ok" THEN nullifier_init(nulls, nullifier_hash)
    ELSE IF ~fee_within_denomination(fee, denom) THEN "FeeExceedsDenomination"
    ELSE IF ~is_known_root(rts, current_index, root) THEN "UnknownRoot"
    ELSE IF verify_proof(proof, stored_vk(vk)) # "Ok"
         THEN verify_proof(proof, stored_vk(vk))
    ELSE validate_vault_pda(VaultPDA)

withdraw_checks(nulls, rts, current_index, vk, denom, proof, root, nullifier_hash, fee) ==
    IF nullifier_init(nulls, nullifier_hash) # "Ok" THEN nullifier_init(nulls, nullifier_hash)
    ELSE IF ~fee_within_denomination(fee, denom) THEN "FeeExceedsDenomination"
    ELSE IF ~is_known_root(rts, current_index, root) THEN "UnknownRoot"
    ELSE IF ~deserialize_verifying_key(vk) THEN "InvalidVerifyingKey"
    ELSE IF verify_proof(proof, stored_vk(vk)) # "Ok"
         THEN verify_proof(proof, stored_vk(vk))
    ELSE validate_vault_pda(VaultPDA)

recipient_is_not_relayer_unchecked(recipient, relayer_pubkey) == TRUE

\* The first require! of the relayer branch, on the two arguments.
recipient_is_not_relayer(recipient, relayer_pubkey) == recipient # relayer_pubkey

relayer_account_matches_unchecked(relayer_account, relayer_pubkey) == TRUE

\* The second require! of the relayer branch: the key of the account
\* supplied as relayer against the relayer argument.
relayer_account_matches(relayer_account, relayer_pubkey) ==
    relayer_account = relayer_pubkey

vault_keeps_rent_covers_payout_only(vault_lamports, total_payout) ==
    vault_lamports >= total_payout

\* The require! before the transfers: what is left of the vault after the
\* payout is at least the rent-exempt minimum of a 0-byte account.
vault_keeps_rent(vault_lamports, total_payout) ==
    saturating_sub(vault_lamports, total_payout) >= minimum_balance(0)

withdraw_payout_checks_relayer_checked_at_zero_fee(lam, denom, fee, recipient, recipient_account, relayer, relayer_account) ==
    LET amount == u64_sub(denom, fee)
        total_payout == u64_add(amount, fee)
    IN  IF executable(recipient_account) THEN "BadRecipient"
        ELSE IF ~vault_keeps_rent(lam[VaultPDA], total_payout) THEN "VaultBelowRent"
        ELSE IF relayer # None
             THEN IF ~recipient_is_not_relayer(recipient, relayer)
                  THEN "RecipientCannotBeRelayer"
                  ELSE IF relayer_account = None THEN "RelayerAccountMissing"
                  ELSE IF ~relayer_account_matches(relayer_account, relayer)
                  THEN "RelayerMismatch"
                  ELSE "Ok"
        ELSE "Ok"

\* The handler from the recipient check on: the first failing step, or "Ok".
withdraw_payout_checks(lam, denom, fee, recipient, recipient_account, relayer, relayer_account) ==
    LET amount == u64_sub(denom, fee)
        total_payout == u64_add(amount, fee)
    IN  IF executable(recipient_account) THEN "BadRecipient"
        ELSE IF ~vault_keeps_rent(lam[VaultPDA], total_payout) THEN "VaultBelowRent"
        ELSE IF relayer # None /\ fee > 0
             THEN IF ~recipient_is_not_relayer(recipient, relayer)
                  THEN "RecipientCannotBeRelayer"
                  ELSE IF relayer_account = None THEN "RelayerAccountMissing"
                  ELSE IF ~relayer_account_matches(relayer_account, relayer)
                  THEN "RelayerMismatch"
                  ELSE "Ok"
        ELSE "Ok"

\* The balances once the init constraint has created the nullifier PDA: the
\* payer has funded its rent.
nullifier_funded(lam) == [lam EXCEPT ![PayerKey] = lam[PayerKey] - NullifierRent]

recipient_paid_whole_denomination(lam, denom, fee, recipient_account) ==
    transfer(nullifier_funded(lam), VaultPDA, recipient_account, denom)

\* The balances after the transfer to the recipient account (if amount > 0).
recipient_paid(lam, denom, fee, recipient_account) ==
    LET amount == u64_sub(denom, fee)
    IN  IF amount > 0
        THEN transfer(nullifier_funded(lam), VaultPDA, recipient_account, amount)
        ELSE nullifier_funded(lam)

\* The balances after the payer funded the nullifier PDA and the vault paid
\* the recipient account and, when a relayer is given and fee > 0, the relayer
\* account.
withdraw_transfers(lam, denom, fee, recipient_account, relayer, relayer_account) ==
    IF relayer # None /\ fee > 0
    THEN transfer(recipient_paid(lam, denom, fee, recipient_account),
                  VaultPDA, relayer_account, fee)
    ELSE recipient_paid(lam, denom, fee, recipient_account)

\* The errors of the relayer branch, which runs after the recipient transfer.
RelayerBranchErrors ==
    {"RecipientCannotBeRelayer", "RelayerAccountMissing", "RelayerMismatch"}

\* withdraw as it runs: the nullifier records and the balances as they are
\* when the instruction returns err.  A refused init has created nothing;
\* every later failure finds the nullifier PDA created, and a failure in the
\* relayer branch finds the recipient paid as well.
withdraw_run(nulls, lam, denom, err, nullifier_hash, fee, recipient_account, relayer, relayer_account) ==
    [nullifiers |-> IF err = nullifier_init(nulls, nullifier_hash) /\ err # "Ok"
                    THEN nulls
                    ELSE create_nullifier(nulls, nullifier_hash),
     lamports   |-> IF err = nullifier_init(nulls, nullifier_hash) /\ err # "Ok"
                    THEN lam
                    ELSE IF err = "Ok"
                    THEN withdraw_transfers(lam, denom, fee, recipient_account,
                                            relayer, relayer_account)
                    ELSE IF err \in RelayerBranchErrors
                    THEN recipient_paid(lam, denom, fee, recipient_account)
                    ELSE nullifier_funded(lam)]

\* Roots a caller may present: the newest deposit root, the oldest one still
\* in the window, the one just evicted, the all-zero value and a value that
\* never was a root.
RootCandidates ==
    LET n == Len(deposit_roots)
        picks == {n, n + 1 - ROOT_HISTORY_SIZE, n - ROOT_HISTORY_SIZE} \cap (1..n)
    IN  {deposit_roots[k] : k \in picks}
          \cup {ZeroBytes, StrayBytes}

\* The end of a withdraw transaction that returned err with the accounts as
\* in run.
WithdrawReturns_advancing_ring(err, run, event) ==
    /\ nullifiers' = commit(err, nullifiers, run.nullifiers)
    /\ lamports' = commit(err, lamports, run.lamports)
    /\ withdrawn' = IF err = "Ok"
                    THEN Append(withdrawn, event.nullifier_hash)
                    ELSE withdrawn
    /\ last' = Outcome("withdraw", err, IF err = "Ok" THEN event ELSE NoEvent)
    /\ current_root_index' = IF err = "Ok" THEN next_root_index(current_root_index)
                             ELSE current_root_index
    /\ UNCHANGED <<authority, denomination, verifying_key, merkle_tree, roots,
                   leaves, deposit_roots>>

WithdrawReturns(err, run, event) ==
    /\ nullifiers' = commit(err, nullifiers, run.nullifiers)
    /\ lamports' = commit(err, lamports, run.lamports)
    /\ withdrawn' = IF err = "Ok"
                    THEN Append(withdrawn, event.nullifier_hash)
                    ELSE withdrawn
    /\ last' = Outcome("withdraw", err, IF err = "Ok" THEN event ELSE NoEvent)
    /\ UNCHANGED <<pool, leaves, deposit_roots>>

Withdraw(proof, root, nullifier_hash, fee) ==
    LET early == withdraw_checks(nullifiers, roots, current_root_index, verifying_key,
                                 denomination, proof, root, nullifier_hash, fee)
    IN  IF early # "Ok"
        THEN WithdrawReturns(early,
                             withdraw_run(nullifiers, lamports, denomination, early,
                                          nullifier_hash, fee, None, None, None),
                             NoEvent)
        ELSE \E recipient \in Keys, recipient_account \in Keys \cup {ProgramKey},
                relayer \in Keys \cup {None}, relayer_account \in Keys \cup {None} :
               LET late == withdraw_payout_checks(lamports, denomination, fee, recipient,
                                                  recipient_account, relayer, relayer_account)
               IN  WithdrawReturns(late,
                                   withdraw_run(nullifiers, lamports, denomination, late,
                                                nullifier_hash, fee, recipient_account,
                                                relayer, relayer_account),
                                   WithdrawalEvent(recipient, nullifier_hash, relayer, fee))

\* ------------------------------------------------------------------ migrate
\* has_one = authority together with authority: Signer.
authority_constraint(auth, signer) ==
    IF signer # auth THEN "ConstraintHasOne" ELSE "Ok"

\* tornado_state is created by init with space = 8 + MAX_SIZE and belongs to
\* the program; the vault and the wallets are system accounts without data.
data_len(account) == IF account = StatePDA THEN 8 + TornadoState_MAX_SIZE ELSE 0

\* The System Program debits only an account that carries no data: a transfer
\* whose source holds program data is refused, and the signer seeds in the CPI
\* do not change that.
system_transfer_verified(from) ==
    IF data_len(from) > 0 THEN "InvalidArgument" ELSE "Ok"

MigrateToVault(signer) ==
    LET state_rent_minimum == minimum_balance(8 + TornadoState_MAX_SIZE)
        current_state_balance == lamports[StatePDA]
        migration_amount == current_state_balance - state_rent_minimum
        cpi == system_transfer_verified(StatePDA)
    IN  IF authority_constraint(authority, signer) # "Ok"
        THEN Aborted("migrate_to_vault", authority_constraint(authority, signer))
        ELSE IF validate_vault_pda(VaultPDA) # "Ok"
        THEN Aborted("migrate_to_vault", validate_vault_pda(VaultPDA))
        ELSE IF current_state_balance > state_rent_minimum
        THEN /\ lamports' = commit(cpi, lamports,
                                   transfer(lamports, StatePDA, VaultPDA, migration_amount))
             /\ last' = Outcome("migrate_to_vault", cpi,
                                IF cpi = "Ok" THEN MigrationEvent(migration_amount)
                                ELSE NoEvent)
             /\ UNCHANGED <<pool, nullifiers, history>>
        ELSE /\ last' = Outcome("migrate_to_vault", "Ok", NoEvent)
             /\ UNCHANGED <<pool, nullifiers, lamports, history>>

\* Anyone may send lamports to the pool state account (the surplus that
\* migrate_to_vault is written to move on).
InitialLamports ==
    VaultRent + StateRent + denomination * (Capacity + 1)
      + NullifierRent * Cardinality(NullifierHashes)

\* All lamports: the modelled accounts and the rent held by the nullifier PDAs.
TotalLamports ==
    LET RECURSIVE Sum(_)
        Sum(S) == IF S = {} THEN 0
                  ELSE LET a == CHOOSE x \in S : TRUE IN lamports[a] + Sum(S \ {a})
    IN  Sum(Accounts) + NullifierRent * Cardinality(nullifiers)

ExternalTransfer ==
    /\ TotalLamports < InitialLamports + MaxExternal
    /\ lamports' = [lamports EXCEPT ![StatePDA] = lamports[StatePDA] + 1]
    /\ last' = Outcome("external_transfer", "Ok", NoEvent)
    /\ UNCHANGED <<pool, nullifiers, history>>

Next ==
    \/ \E s \in Depositors, d \in {1, 2}, vk \in VKBlobs : Initialize(s, d, vk)
    \/ \E k \in Depositors, c \in Commitments : Deposit(k, c)
    \/ \E p \in ProofKinds, r \in RootCandidates, nh \in NullifierHashes,
          f \in 0..(denomination + 1) : Withdraw(p, r, nh, f)
    \/ \E s \in {"alice", "bob"} : MigrateToVault(s)
    \/ ExternalTransfer

Spec == Init /\ [][Next]_vars

\* ------------------------------------------------- decoding of stored keys
\* Blobs around every check of deserialize_verifying_key: counts at and
\* beside the bounds 1 and 100, lengths at and beside the minimum size and
\* the size the count requires, and every pattern of all-zero curve fields.
VKCounts == {0, 1, 2, 8, 99, 100, 101, 1000}
VKRequiredLen(nr_pubinputs) == 452 + 64 * (nr_pubinputs + 1)
VKLengths(nr_pubinputs) ==
    {0, 3, MIN_VK_SIZE - 1, MIN_VK_SIZE, VKRequiredLen(nr_pubinputs) - 1,
     VKRequiredLen(nr_pubinputs), VKRequiredLen(nr_pubinputs) + 1}
VKInputs ==
    UNION {{[nr_pubinputs |-> n, len |-> l, alpha_zero |-> a, beta_zero |-> b,
             gamma_zero |-> g, delta_zero |-> d, key |-> "ceremony"] :
              l \in VKLengths(n), a \in BOOLEAN, b \in BOOLEAN,
              g \in BOOLEAN, d \in BOOLEAN} : n \in VKCounts}

\* Pools created with any of these blobs: initialize stores what it is given.
VKInit == PoolCreated(VKInputs)

\* The decoding step of withdraw, applied to the stored blob.
DecodeStoredKey ==
    /\ last' = Outcome("deserialize_verifying_key",
                        IF deserialize_verifying_key(verifying_key)
                        THEN "Ok" ELSE "InvalidVerifyingKey",
                        NoEvent)
    /\ UNCHANGED <<pool, nullifiers, lamports, history>>

VKNext == DecodeStoredKey

VKSpec == VKInit /\ [][VKNext]_vars

\* ------------------------------------------------------- the tree by itself
\* Leaves given to insert: two field elements and a value that is not a
\* canonical field element.
TreeLeaves == {<<1>>, <<2>>, OversizeBytes}

\* A pool right after initialize: its tree is MerkleTree::new().
TreeInit == PoolCreated({GoodVK})

\* MerkleTree::insert called on the pool's tree.
Insert(leaf) ==
    LET ins == insert(merkle_tree, leaf)
    IN  /\ merkle_tree' = ins.tree
        /\ leaves' = IF ins.ok THEN Append(leaves, leaf) ELSE leaves
        /\ last' = IF ins.ok
                   THEN Outcome("insert", "Ok", DepositEvent(leaf, ins.index))
                   ELSE Outcome("insert", "MerkleTreeFull", NoEvent)
        /\ UNCHANGED <<authority, denomination, verifying_key, roots,
                       current_root_index, nullifiers, lamports, deposit_roots,
                       withdrawn>>

TreeNext == \E leaf \in TreeLeaves : Insert(leaf)

TreeSpec == TreeInit /\ [][TreeNext]_vars

\* ------------------------------------------------------------ byte codecs
\* The address and endianness codecs work on the bytes of a value, so here a
\* 32-byte value is the sequence of its bytes, scaled to FIELD_BYTES bytes
\* (HALF_BYTES stands for 16, FIELD_BYTES for 32).
HALF_BYTES == 2

FIELD_BYTES == 2 * HALF_BYTES

CodecBytes == {0, 1, 2}

zero_bytes(n) == [i \in 1..n |-> 0]

\* high = zeros then the first half of the address, low = zeros then the
\* second half (copy_from_slice into [16..32)).
split_address_low_from_first_half(address) ==
    [high |-> zero_bytes(HALF_BYTES) \o SubSeq(address, 1, HALF_BYTES),
     low  |-> zero_bytes(HALF_BYTES) \o SubSeq(address, 1, HALF_BYTES)]

split_address_to_high_low(address) ==
    [high |-> zero_bytes(HALF_BYTES) \o SubSeq(address, 1, HALF_BYTES),
     low  |-> zero_bytes(HALF_BYTES) \o SubSeq(address, HALF_BYTES + 1, FIELD_BYTES)]

reconstruct_address_from_high_low(high, low) ==
    SubSeq(high, HALF_BYTES + 1, FIELD_BYTES) \o SubSeq(low, HALF_BYTES + 1, FIELD_BYTES)

\* chunk.iter().rev()
rev(chunk) == [i \in 1..Len(chunk) |-> chunk[Len(chunk) + 1 - i]]

\* bytes.chunks(32): full chunks, then one shorter chunk when bytes remain.
RECURSIVE change_endianness_loop(_, _)
change_endianness_loop(bytes, result) ==
    IF bytes = <<>>
    THEN result
    ELSE LET n == IF Len(bytes) < FIELD_BYTES THEN Len(bytes) ELSE FIELD_BYTES
         IN  change_endianness_loop(SubSeq(bytes, n + 1, Len(bytes)),
                                    result \o rev(SubSeq(bytes, 1, n)))

change_endianness_whole_string(bytes) == rev(bytes)

change_endianness(bytes) == change_endianness_loop(bytes, <<>>)

\* The codec inputs: every address over CodecBytes, and every byte string of
\* up to a full chunk and one byte more.
MaxBytesLen == FIELD_BYTES + 1

Addresses == [1..FIELD_BYTES -> CodecBytes]

ByteStrings == UNION {[1..n -> {1, 2}] : n \in 0..MaxBytesLen}

CodecInit == PoolCreated({GoodVK})

SplitEvent(address, parts, reconstructed) ==
    [name |-> "split", address |-> address, high |-> parts.high, low |-> parts.low,
     reconstructed |-> reconstructed]

EndiannessEvent(original, converted, double_converted) ==
    [name |-> "endianness", original |-> original, converted |-> converted,
     double_converted |-> double_converted]

\* test_address_splitting: split an address, then reconstruct it.
SplitAddress(address) ==
    LET parts == split_address_to_high_low(address)
    IN  /\ last' = Outcome("split_address_to_high_low", "Ok",
                           SplitEvent(address, parts,
                               reconstruct_address_from_high_low(parts.high, parts.low)))
        /\ UNCHANGED <<pool, nullifiers, lamports, history>>

\* test_endianness_conversion: convert, then convert the result again.
ChangeEndianness(bytes) ==
    LET converted == change_endianness(bytes)
    IN  /\ last' = Outcome("change_endianness", "Ok",
                           EndiannessEvent(bytes, converted, change_endianness(converted)))
        /\ UNCHANGED <<pool, nullifiers, lamports, history>>

\* value.to_be_bytes(): a u64 is U64_BITS digits here, most significant
\* first, one per byte of the program's eight and each scaled to one bit.
to_be_bytes(value) == [i \in 1..U64_BITS |-> (value \div Pow2(U64_BITS - i)) % 2]

to_le_bytes(value) == [i \in 1..U64_BITS |-> (value \div Pow2(i - 1)) % 2]

encode_u64_as_32_bytes_little_endian(value, output) ==
    SubSeq(output, 1, FIELD_BYTES - U64_BITS) \o to_le_bytes(value)

\* output[24..32].copy_from_slice(&value.to_be_bytes()): the head of output
\* stays as it was.
encode_u64_as_32_bytes(value, output) ==
    SubSeq(output, 1, FIELD_BYTES - U64_BITS) \o to_be_bytes(value)

\* Pubkey::default()
Pubkey_default == zero_bytes(FIELD_BYTES)

\* Option::None for a key given by its bytes.
NoPubkey == <<>>

\* relayer.unwrap_or(Pubkey::default()) at the call of verify_proof.
relayer_or_default(relayer) == IF relayer = NoPubkey THEN Pubkey_default ELSE relayer

prepare_public_inputs(root, nullifier_hash, recipient, relayer, fee, refund) ==
    <<root,
      nullifier_hash,
      split_address_to_high_low(recipient).high,
      split_address_to_high_low(recipient).low,
      split_address_to_high_low(relayer).high,
      split_address_to_high_low(relayer).low,
      encode_u64_as_32_bytes(fee, zero_bytes(FIELD_BYTES)),
      encode_u64_as_32_bytes(refund, zero_bytes(FIELD_BYTES))>>

\* Values for the public inputs: a root, a nullifier hash, three addresses
\* with distinct halves, every u64 for the fee, and refunds 0 and U64_MAX - 1.
InputRoots == {[i \in 1..FIELD_BYTES |-> IF i = 1 THEN 2 ELSE 1]}

InputRefunds == {0, U64_MAX - 1}

InputNullifiers == {[i \in 1..FIELD_BYTES |-> 2]}

InputAddresses ==
    {[i \in 1..FIELD_BYTES |-> IF i <= HALF_BYTES THEN 1 ELSE 2],
     [i \in 1..FIELD_BYTES |-> IF i <= HALF_BYTES THEN 2 ELSE 1],
     [i \in 1..FIELD_BYTES |-> IF i = FIELD_BYTES THEN 0 ELSE 2]}

PublicInputsEvent(root, nullifier_hash, recipient, relayer, fee, refund, inputs) ==
    [name |-> "public_inputs", root |-> root, nullifier_hash |-> nullifier_hash,
     recipient |-> recipient, relayer |-> relayer, fee |-> fee, refund |-> refund,
     inputs |-> inputs]

\* withdraw's call of verify_proof up to the public inputs, the relayer an
\* Option as withdraw receives it.
PreparePublicInputs(root, nullifier_hash, recipient, relayer, fee, refund) ==
    /\ last' = Outcome("prepare_public_inputs", "Ok",
                       PublicInputsEvent(root, nullifier_hash, recipient, relayer,
                           fee, refund,
                           prepare_public_inputs(root, nullifier_hash, recipient,
                               relayer_or_default(relayer), fee, refund)))
    /\ UNCHANGED <<pool, nullifiers, lamports, history>>

CodecNext ==
    \/ \E address \in Addresses : SplitAddress(address)
    \/ \E bytes \in ByteStrings : ChangeEndianness(bytes)
    \/ \E root \in InputRoots, nullifier_hash \in InputNullifiers,
          recipient \in InputAddresses, relayer \in InputAddresses \cup {NoPubkey},
          fee \in 0..U64_MAX, refund \in InputRefunds :
          PreparePublicInputs(root, nullifier_hash, recipient, relayer, fee, refund)

CodecSpec == CodecInit /\ [][CodecNext]_vars

\* --------------------------------------------------------- payout arithmetic
\* Pools of every u64 denomination, with deposits and with withdraws whose
\* fee is 0, the denomination or the largest u64.
PayoutInit == PoolCreatedWith({GoodVK}, 0..U64_MAX)

PayoutFees == {0, denomination, U64_MAX}

PayoutNext ==
    \/ \E c \in Commitments : Deposit("alice", c)
    \/ \E p \in {Proof(256, "point", "ceremony")}, r \in RootCandidates,
          nh \in NullifierHashes, f \in PayoutFees : Withdraw(p, r, nh, f)

PayoutSpec == PayoutInit /\ [][PayoutNext]_vars

\* ================================================================== claims
DepositCount == Len(deposit_roots)
DepositRootSet == {deposit_roots[k] : k \in 1..DepositCount}

\* The roots of the most recent min(n, ROOT_HISTORY_SIZE) successful deposits.
RecentRoots ==
    {deposit_roots[k] : k \in {j \in 1..DepositCount :
                                 DepositCount - j < ROOT_HISTORY_SIZE}}

\* Every root a caller might try: all past deposit roots, the empty-tree
\* root, the all-zero value and a value that never was a root.
RootInputs ==
    DepositRootSet \cup {ZeroBytes, StrayBytes, MerkleTree_new.current_root}

Fees == 0..(denomination + 1)

\* What withdraw answers, up to the vault check, in the current state.
WithdrawChecksNow(proof, root, nullifier_hash, fee) ==
    withdraw_checks(nullifiers, roots, current_root_index, verifying_key,
                    denomination, proof, root, nullifier_hash, fee)

WithdrawOk == last.op = "withdraw" /\ last.err = "Ok"
WithdrawFailed == last.op = "withdraw" /\ last.err # "Ok"

\* C1: no two successful withdrawals carry the same nullifier_hash.
C1_NullifierUnique ==
    \A i, j \in 1..Len(withdrawn) : i # j => withdrawn[i] # withdrawn[j]

\* Two withdrawals have succeeded and a further one was refused because its
\* nullifier PDA exists.
C1_Witness ==
    /\ Len(withdrawn) = 2
    /\ last.op = "withdraw"
    /\ last.err = "AccountAlreadyInUse"

\* C2 (as claimed): a withdraw whose nullifier_hash already has a record fails
\* with NoteAlreadySpent, and a failed withdraw leaves the balances, the pool
\* state and the nullifier records as they were.
C2_SpentFailsWithNoteAlreadySpent ==
    /\ [](\A nh \in nullifiers, p \in ProofKinds, r \in RootInputs, f \in Fees :
            WithdrawChecksNow(p, r, nh, f) = "NoteAlreadySpent")
    /\ [][(last'.op = "withdraw" /\ last'.err # "Ok")
            => UNCHANGED <<pool, nullifiers, lamports, history>>]_vars

\* C3: the nullifier records are exactly the nullifier hashes of the
\* successful withdrawals, one record each; a successful withdraw adds the
\* record of its nullifier_hash and nothing else does; no record is removed.
C3_RecordsMatchWithdrawals ==
    /\ [](/\ nullifiers = {withdrawn[i] : i \in 1..Len(withdrawn)}
          /\ Cardinality(nullifiers) = Len(withdrawn))
    /\ [][/\ nullifiers \subseteq nullifiers'
          /\ (last'.op = "withdraw" /\ last'.err = "Ok")
               => /\ last'.event.nullifier_hash \notin nullifiers
                  /\ nullifiers' = nullifiers \cup {last'.event.nullifier_hash}
                  /\ withdrawn' = Append(withdrawn, last'.event.nullifier_hash)
          /\ ~(last'.op = "withdraw" /\ last'.err = "Ok")
               => /\ nullifiers' = nullifiers
                  /\ withdrawn' = withdrawn]_vars

\* Both nullifiers are recorded, the second by the withdraw that just succeeded.
C3_Witness ==
    /\ WithdrawOk
    /\ Cardinality(nullifiers) = 2
    /\ withdrawn[2] = last.event.nullifier_hash

\* C4: the root of a deposit is known while fewer than ROOT_HISTORY_SIZE
\* further deposits have succeeded.
C4_RootMembership ==
    \A k \in 1..DepositCount :
        DepositCount - k < ROOT_HISTORY_SIZE
            => is_known_root(roots, current_root_index, deposit_roots[k])

\* The ring has wrapped, a withdrawal has gone through, the state account
\* holds a surplus, and the oldest root of the window is still known.
C4_Witness ==
    /\ DepositCount = ROOT_HISTORY_SIZE + 1
    /\ Len(withdrawn) >= 1
    /\ lamports[StatePDA] > StateRent
    /\ TotalLamports > InitialLamports
    /\ is_known_root(roots, current_root_index, deposit_roots[2])

\* C5: is_known_root accepts exactly the roots of the most recent
\* min(n, ROOT_HISTORY_SIZE) deposits, and a withdraw that reaches the root
\* check (unspent nullifier, fee <= denomination) fails there with UnknownRoot
\* exactly for the other roots.
C5_RootWindowExact ==
    /\ \A r \in RootInputs :
          is_known_root(roots, current_root_index, r) <=> r \in RecentRoots
    /\ \A r \in RootInputs, nh \in NullifierHashes \ nullifiers,
          p \in ProofKinds, f \in 0..denomination :
          (WithdrawChecksNow(p, r, nh, f) = "UnknownRoot") <=> r \notin RecentRoots

\* A root has been evicted and a withdraw just failed with UnknownRoot, while
\* the evicted root is refused and the oldest root of the window is accepted.
C5_Witness ==
    /\ DepositCount > ROOT_HISTORY_SIZE
    /\ last.op = "withdraw"
    /\ last.err = "UnknownRoot"
    /\ ~is_known_root(roots, current_root_index, deposit_roots[1])
    /\ is_known_root(roots, current_root_index, deposit_roots[2])

\* C6: the all-zero root is never known, and no withdraw with an all-zero
\* root passes the checks.
C6_ZeroRootRejected ==
    /\ ~is_known_root(roots, current_root_index, ZeroBytes)
    /\ \A nh \in NullifierHashes, p \in ProofKinds, f \in Fees :
          WithdrawChecksNow(p, ZeroBytes, nh, f) # "Ok"

\* After a deposit some ring slot still holds the all-zero value and a
\* withdraw has just been refused for its root.
C6_Witness ==
    /\ DepositCount >= 1
    /\ \E i \in 1..ROOT_HISTORY_SIZE : roots[i] = ZeroBytes
    /\ last.op = "withdraw"
    /\ last.err = "UnknownRoot"

\* C7 (as claimed): every entry of roots[] is a value current_root held right
\* after some past successful deposit.
C7_EveryEntryIsDepositRoot ==
    \A i \in 1..ROOT_HISTORY_SIZE : roots[i] \in DepositRootSet

\* C7 (amended): every entry of roots[] is either all-zero, in a slot no
\* deposit has written yet, or a value current_root held right after some
\* past successful deposit.
C7_NonZeroEntryIsDepositRoot ==
    \A i \in 1..ROOT_HISTORY_SIZE :
        \/ /\ roots[i] = ZeroBytes
           /\ DepositCount < (IF i = 1 THEN ROOT_HISTORY_SIZE ELSE i - 1)
        \/ roots[i] \in DepositRootSet

\* One deposit: its root sits in slot 1 and slot 0 is still all-zero.
C7_Witness ==
    /\ DepositCount = 1
    /\ roots[2] = deposit_roots[1]
    /\ roots[1] = ZeroBytes

\* The reference tree: the node of height h at position p over the leaves,
\* an empty leaf position holding zeros[0].
RECURSIVE reference_node(_, _, _)
reference_node(lvs, h, p) ==
    IF h = 0
    THEN IF p < Len(lvs) THEN lvs[p + 1] ELSE generate_zeros[1]
    ELSE hash_left_right(reference_node(lvs, h - 1, 2 * p),
                         reference_node(lvs, h - 1, 2 * p + 1))

reference_root(lvs) == reference_node(lvs, LEVELS, 0)

\* C8 (as claimed): current_root is the root of the reference tree of depth
\* LEVELS over the inserted leaves, from the fresh tree onward.
C8_RootIsReferenceRoot ==
    merkle_tree.current_root = reference_root(leaves)

\* C10: insert succeeds exactly while next_index < 2^LEVELS and otherwise
\* leaves the tree as it was; next_index never exceeds 2^LEVELS; on a full
\* tree a funded deposit fails with MerkleTreeFull and every deposit is
\* rejected with the balances, the tree and the ring unchanged.
C10_TreeCapacity ==
    /\ [](/\ merkle_tree.next_index <= Capacity
          /\ \A c \in Commitments \cup {OversizeBytes} :
               /\ insert(merkle_tree, c).ok <=> merkle_tree.next_index < Capacity
               /\ ~insert(merkle_tree, c).ok => insert(merkle_tree, c).tree = merkle_tree
               /\ merkle_tree.next_index = Capacity
                    => deposit_result(lamports, merkle_tree, "alice", c) = "MerkleTreeFull")
    /\ [][(merkle_tree.next_index = Capacity /\ last'.op = "deposit")
            => /\ last'.err # "Ok"
               /\ UNCHANGED <<pool, nullifiers, lamports, history>>]_vars

\* The last leaf went in at index 2^LEVELS - 1 and the next deposit was
\* refused.
C10_Witness ==
    /\ merkle_tree.next_index = Capacity
    /\ Len(leaves) = Capacity
    /\ last.op = "deposit"
    /\ last.err = "MerkleTreeFull"

\* C11 (as claimed): every successful withdrawal has fee <= denomination;
\* every withdraw with fee > denomination fails with FeeExceedsDenomination
\* and moves no funds; fee = 0 and fee = denomination pass the fee check.
C11_FeeAboveDenominationRejected ==
    /\ [](/\ WithdrawOk => last.event.fee <= denomination
          /\ \A p \in ProofKinds, r \in RootInputs, nh \in NullifierHashes :
               /\ \A f \in Fees : f > denomination
                     => WithdrawChecksNow(p, r, nh, f) = "FeeExceedsDenomination"
               /\ \A f \in {0, denomination} :
                     WithdrawChecksNow(p, r, nh, f) # "FeeExceedsDenomination")
    /\ [][(last'.op = "withdraw" /\ last'.err = "FeeExceedsDenomination")
            => UNCHANGED <<pool, nullifiers, lamports, history>>]_vars

\* C11 (amended): every successful withdrawal has fee <= denomination; every
\* withdraw with fee > denomination whose nullifier_hash has no record fails
\* with FeeExceedsDenomination, and one whose nullifier_hash has a record
\* fails on the creation of the record; either way no funds move; fee = 0
\* and fee = denomination pass the fee check.
C11_FeeCap ==
    /\ [](/\ WithdrawOk => last.event.fee <= denomination
          /\ \A p \in ProofKinds, r \in RootInputs, nh \in NullifierHashes :
               /\ \A f \in Fees : f > denomination
                     => WithdrawChecksNow(p, r, nh, f) =
                           IF nh \in nullifiers THEN "AccountAlreadyInUse"
                           ELSE "FeeExceedsDenomination"
               /\ \A f \in {0, denomination} :
                     WithdrawChecksNow(p, r, nh, f) # "FeeExceedsDenomination")
    /\ [][(last'.op = "withdraw"
             /\ last'.err \in {"FeeExceedsDenomination", "AccountAlreadyInUse"})
            => UNCHANGED <<pool, nullifiers, lamports, history>>]_vars

\* A withdrawal has succeeded and paid out, and a later withdraw was refused
\* for its fee.
C11_Witness ==
    /\ \E i \in 1..Len(withdrawn) : withdrawn[i] \in nullifiers
    /\ lamports["bob"] + lamports["carol"] > 0
    /\ last.op = "withdraw"
    /\ last.err = "FeeExceedsDenomination"

\* Denominations and vault balances around the rent check: the pool's
\* denomination and the largest one a u64 holds, and balances below the
\* payout, below rent + payout, at it and above it.
RentCheckDenominations == {denomination, U64_MAX}
RentCheckBalances(d) ==
    {0, d - 1, d, VaultRent, VaultRent + d - 1, VaultRent + d, VaultRent + d + 1}

\* C12: the vault balance is at least the rent-exempt minimum in every
\* reachable state; a withdraw that reaches the rent check fails there with
\* VaultBelowRent exactly when vault balance - denomination is below that
\* minimum, the vault holding less than the payout included, and changes
\* nothing.
C12_RentPreserved ==
    /\ [](/\ lamports[VaultPDA] >= VaultRent
          /\ \A f \in 0..denomination, rc \in Keys, ra \in Keys,
                rl \in Keys \cup {None}, rla \in Keys \cup {None} :
               (withdraw_payout_checks(lamports, denomination, f, rc, ra, rl, rla)
                   = "VaultBelowRent")
                 <=> lamports[VaultPDA] < VaultRent + denomination
          /\ \A d \in RentCheckDenominations : \A v \in RentCheckBalances(d) :
               \A f \in {0, 1, d}, rl \in Keys \cup {None} :
                 (withdraw_payout_checks([lamports EXCEPT ![VaultPDA] = v], d, f,
                                         "bob", "bob", rl, rl) = "VaultBelowRent")
                   <=> v < VaultRent + d)
    /\ [][(last'.op = "withdraw" /\ last'.err = "VaultBelowRent")
            => /\ lamports[VaultPDA] < VaultRent + denomination
               /\ UNCHANGED <<pool, nullifiers, lamports, history>>]_vars

\* A withdrawal has emptied the vault down to its rent minimum and the next
\* one was refused.
C12_Witness ==
    /\ Len(withdrawn) >= 1
    /\ lamports[VaultPDA] = VaultRent
    /\ last.op = "withdraw"
    /\ last.err = "VaultBelowRent"

\* C13 (as claimed): every successful withdraw with a relayer and fee > 0
\* raises the balance of the recipient by denomination - fee, raises the
\* balance of the relayer by fee and lowers the vault by denomination.
C13_PayoutAmounts ==
    [][(/\ last'.op = "withdraw"
        /\ last'.err = "Ok"
        /\ last'.event.relayer # None
        /\ last'.event.fee > 0)
         => /\ lamports'[last'.event.to] =
                  lamports[last'.event.to] + (denomination - last'.event.fee)
            /\ lamports'[last'.event.relayer] =
                  lamports[last'.event.relayer] + last'.event.fee
            /\ lamports'[VaultPDA] + denomination = lamports[VaultPDA]]_vars

\* C14: no successful withdrawal has a relayer, fee > 0 and recipient =
\* relayer; a withdraw with recipient = relayer and fee > 0 that reaches the
\* relayer branch fails with RecipientCannotBeRelayer, and it leaves every
\* balance, the recipient's included, as it was.
C14_NoSelfPay ==
    /\ []((WithdrawOk /\ last.event.relayer # None /\ last.event.fee > 0)
            => last.event.to # last.event.relayer)
    /\ [](lamports[VaultPDA] >= VaultRent + denomination
            => \A f \in 1..denomination, k \in Keys, ra \in Keys,
                  rla \in Keys \cup {None} :
                 withdraw_payout_checks(lamports, denomination, f, k, ra, k, rla)
                    = "RecipientCannotBeRelayer")
    /\ [][(last'.op = "withdraw" /\ last'.err = "RecipientCannotBeRelayer")
            => UNCHANGED <<pool, nullifiers, lamports, history>>]_vars

\* With the vault able to pay, a withdraw was refused because its recipient
\* is its relayer.
C14_Witness ==
    /\ lamports[VaultPDA] >= VaultRent + denomination
    /\ last.op = "withdraw"
    /\ last.err = "RecipientCannotBeRelayer"

\* C15: the balances after a successful withdraw are those of paying the fee,
\* when one is paid, to the account whose key is the relayer argument; a
\* withdraw with a relayer and fee > 0 that reaches the relayer branch fails
\* with RelayerAccountMissing when no relayer account is supplied and with
\* RelayerMismatch when the supplied account has another key.
C15_RelayerAuthenticated ==
    /\ [][(last'.op = "withdraw" /\ last'.err = "Ok")
            => \E ra \in Keys :
                 lamports' = withdraw_transfers(lamports, denomination,
                                                last'.event.fee, ra,
                                                last'.event.relayer,
                                                last'.event.relayer)]_vars
    /\ [](lamports[VaultPDA] >= VaultRent + denomination
            => \A f \in 1..denomination, rc \in Keys, ra \in Keys :
               \A rl \in Keys \ {rc} :
                 /\ withdraw_payout_checks(lamports, denomination, f, rc, ra, rl, None)
                      = "RelayerAccountMissing"
                 /\ \A rla \in Keys \ {rl} :
                      withdraw_payout_checks(lamports, denomination, f, rc, ra, rl, rla)
                        = "RelayerMismatch")
    /\ [][(last'.op = "withdraw"
             /\ last'.err \in {"RelayerAccountMissing", "RelayerMismatch"})
            => UNCHANGED <<pool, nullifiers, lamports, history>>]_vars

\* Withdrawals have paid both keys, and a later withdraw was refused because
\* the relayer account supplied has another key than the relayer argument.
C15_Witness ==
    /\ Len(withdrawn) >= 1
    /\ lamports["bob"] > 0
    /\ lamports["carol"] > 0
    /\ last.op = "withdraw"
    /\ last.err = "RelayerMismatch"

\* C16: a withdraw that fails at any step leaves the nullifier records, every
\* balance and the pool state as they were, also when it fails in the relayer
\* branch, where the recipient transfer has been issued; a deposit that fails
\* leaves every balance, the tree and the ring as they were, also when it
\* fails on a full tree, where the transfer has been issued.
C16_AtomicFailure ==
    /\ [][((last'.op = "withdraw" \/ last'.op = "deposit") /\ last'.err # "Ok")
            => UNCHANGED <<pool, nullifiers, lamports, history>>]_vars
    /\ [](\A nh \in NullifierHashes \ nullifiers, f \in 1..denomination,
             rc \in Keys, ra \in Keys, rl \in Keys, rla \in Keys \cup {None} :
             LET late == withdraw_payout_checks(lamports, denomination, f,
                                                rc, ra, rl, rla)
                 run  == withdraw_run(nullifiers, lamports, denomination, late,
                                      nh, f, ra, rl, rla)
             IN  late \in RelayerBranchErrors
                   => /\ nh \in run.nullifiers
                      /\ run.lamports[PayerKey] < lamports[PayerKey]
                      /\ f < denomination
                           => run.lamports[VaultPDA] < lamports[VaultPDA])
    /\ [](\A c \in Commitments :
             LET run == deposit_run(lamports, merkle_tree, roots, current_root_index,
                                    "alice", c)
             IN  run.err = "MerkleTreeFull"
                   => run.lamports[VaultPDA] = lamports[VaultPDA] + denomination)

\* On a full tree, with the depositor still funded, a withdraw was refused in
\* the relayer branch.
C16_Witness ==
    /\ merkle_tree.next_index = Capacity
    /\ lamports["alice"] >= denomination
    /\ last.op = "withdraw"
    /\ last.err \in RelayerBranchErrors

\* C17: no step changes the stored verifying-key blob, the denomination or
\* the authority; a withdraw that reaches the proof check passes it exactly
\* when its proof verifies under the key held in the stored blob, so a proof
\* made for the key compiled into the program is refused, and when the
\* stored blob does not decode the withdraw fails with InvalidVerifyingKey.
C17_StoredKeyOnly ==
    /\ [][UNCHANGED <<verifying_key, denomination, authority>>]_vars
    /\ [](/\ WithdrawOk => deserialize_verifying_key(verifying_key)
          /\ \A p \in ProofKinds, r \in RecentRoots,
                nh \in NullifierHashes \ nullifiers, f \in 0..denomination :
               IF deserialize_verifying_key(verifying_key)
               THEN /\ (WithdrawChecksNow(p, r, nh, f) = "Ok")
                         <=> (p.len = 256 /\ p.a = "point"
                                /\ p.valid_for = verifying_key.key)
                    /\ (p.len = 256 /\ p.a = "point"
                          /\ p.valid_for = get_withdraw_verifying_key.key
                          /\ verifying_key.key # get_withdraw_verifying_key.key)
                         => WithdrawChecksNow(p, r, nh, f) = "InvalidProof"
               ELSE WithdrawChecksNow(p, r, nh, f) = "InvalidVerifyingKey")

\* Under the stored ceremony key one withdrawal has succeeded and a later
\* withdraw was refused by the pairing check.
C17_Witness ==
    /\ verifying_key = GoodVK
    /\ Len(withdrawn) >= 1
    /\ last.op = "withdraw"
    /\ last.err = "InvalidProof"

\* C18: every initialize after the first fails and leaves the authority, the
\* denomination, the tree, the root history, the verifying key and every
\* account as they were; the pool state account stays in use, holding at
\* least its rent-exempt minimum.
C18_InitializeOnce ==
    /\ [][last'.op = "initialize"
            => /\ last'.err # "Ok"
               /\ UNCHANGED <<pool, nullifiers, lamports, history>>]_vars
    /\ [](/\ lamports[StatePDA] >= StateRent
          /\ tornado_state_init(lamports) # "Ok")

\* After a deposit and a withdrawal a further initialize was refused.
C18_Witness ==
    /\ DepositCount >= 1
    /\ Len(withdrawn) >= 1
    /\ last.op = "initialize"
    /\ last.err = "AccountAlreadyInUse"

\* Proofs around the length check: empty, truncated, one byte short, exact
\* and one byte long, each with and without a parsable A and valid under the
\* stored key, under another key or under none.
ProofLengths == {0, 200, 255, 256, 257}
ProofInputs ==
    {Proof(n, a, k) : n \in ProofLengths, a \in {"point", "no_point"},
                      k \in {"ceremony", "embedded", None}}

\* C19: a withdraw with a known root, a decodable stored key, fee <=
\* denomination and an unspent nullifier_hash fails with InvalidProofLength
\* exactly when its proof is not 256 bytes long, whatever the points in it,
\* and a withdraw that failed so has created no nullifier record and changed
\* nothing else.
C19_ProofLength ==
    /\ [](deserialize_verifying_key(verifying_key)
            => \A p \in ProofInputs, r \in RecentRoots,
                  nh \in NullifierHashes \ nullifiers, f \in 0..denomination :
                 (WithdrawChecksNow(p, r, nh, f) = "InvalidProofLength")
                    <=> p.len # 256)
    /\ [][(last'.op = "withdraw" /\ last'.err = "InvalidProofLength")
            => UNCHANGED <<pool, nullifiers, lamports, history>>]_vars

\* With a deposit in the tree and a decodable key, a withdraw was refused for
\* the length of its proof.
C19_Witness ==
    /\ DepositCount >= 1
    /\ deserialize_verifying_key(verifying_key)
    /\ last.op = "withdraw"
    /\ last.err = "InvalidProofLength"

C21_EveryWitnessVerifies ==
    \A i \in 0..(Len(leaves) - 1) :
        MerkleTree_verify_proof(get_root(merkle_tree), leaves[i + 1],
                                get_proof(merkle_tree, i), i)

\* ----------------------------------------------------------------- C22
\* C22: for every address a, split_address_to_high_low(a) gives (high, low)
\* whose first half is all zero, with high's second half equal to a's first
\* half and low's second half equal to a's second half, and
\* reconstruct_address_from_high_low(high, low) = a.
C22_AddressRoundTrip ==
    last.op = "split_address_to_high_low" =>
        LET e == last.event
        IN  /\ Len(e.high) = FIELD_BYTES /\ Len(e.low) = FIELD_BYTES
            /\ \A i \in 1..HALF_BYTES :
                  /\ e.high[i] = 0
                  /\ e.low[i] = 0
                  /\ e.high[HALF_BYTES + i] = e.address[i]
                  /\ e.low[HALF_BYTES + i] = e.address[HALF_BYTES + i]
            /\ e.reconstructed = e.address

\* An address whose halves differ and hold no zero byte has been split.
C22_Witness ==
    /\ last.op = "split_address_to_high_low"
    /\ \A i \in 1..FIELD_BYTES : last.event.address[i] # 0
    /\ SubSeq(last.event.address, 1, HALF_BYTES)
          # SubSeq(last.event.address, HALF_BYTES + 1, FIELD_BYTES)

\* ----------------------------------------------------------------- C23
\* C23: change_endianness keeps the length, puts byte (start of chunk + j) of
\* each consecutive FIELD_BYTES chunk at (end of chunk - j), a shorter final
\* chunk being reversed as a whole, and applying it twice gives the input.
C23_EndiannessInvolution ==
    last.op = "change_endianness" =>
        LET e == last.event
            n == Len(e.original)
        IN  /\ Len(e.converted) = n
            /\ \A i \in 1..n :
                  LET start == ((i - 1) \div FIELD_BYTES) * FIELD_BYTES
                      size  == IF n - start < FIELD_BYTES THEN n - start ELSE FIELD_BYTES
                  IN  e.converted[i] = e.original[start + size + 1 - (i - start)]
            /\ e.double_converted = e.original

\* A string of a full chunk and a shorter one, neither a palindrome, has been
\* converted.
C23_Witness ==
    /\ last.op = "change_endianness"
    /\ Len(last.event.original) > FIELD_BYTES
    /\ Len(last.event.original) % FIELD_BYTES # 0
    /\ last.event.converted # last.event.original
    /\ last.event.converted # rev(last.event.original)

C25_StepOrder ==
    /\ [](\A p \in ProofKinds, r \in RootInputs, nh \in NullifierHashes,
             f \in 0..denomination :
             LET early  == WithdrawChecksNow(p, r, nh, f)
                 run    == withdraw_run(nullifiers, lamports, denomination, early,
                                        nh, f, None, None, None)
                 known  == is_known_root(roots, current_root_index, r)
                 proved == /\ deserialize_verifying_key(verifying_key)
                           /\ verify_proof(p, stored_vk(verifying_key)) = "Ok"
             IN  /\ nh \in nullifiers => early = "AccountAlreadyInUse"
                 /\ (nh \notin nullifiers /\ ~known)
                       => early = "UnknownRoot" /\ nh \in run.nullifiers
                 /\ (nh \notin nullifiers /\ known /\ ~proved)
                       => /\ early \in {"InvalidVerifyingKey", "InvalidProofLength",
                                        "ProofNegationFailed", "InvalidProof"}
                          /\ run.lamports[VaultPDA] = lamports[VaultPDA]
                          /\ \A k \in Keys : run.lamports[k] = lamports[k]
                 /\ early = "Ok" => nh \notin nullifiers /\ known /\ proved)
    /\ [][(last'.op = "withdraw" /\ lamports' # lamports) => last'.err = "Ok"]_vars

\* After a withdrawal that paid out, a withdraw with a fresh nullifier_hash
\* was refused for its root.
C25_Witness ==
    /\ Len(withdrawn) > 0
    /\ lamports["bob"] + lamports["carol"] > 0
    /\ nullifiers # NullifierHashes
    /\ last.op = "withdraw"
    /\ last.err = "UnknownRoot"

\* ----------------------------------------------------------------- C26
\* C26 (as claimed): the fee check runs before the nullifier record is
\* created: a withdraw with fee > denomination fails with
\* FeeExceedsDenomination, also when its nullifier_hash is spent, and no
\* record has been created when it fails.
C26_FeeCheckFirst ==
    \A p \in ProofKinds, r \in RootInputs, nh \in NullifierHashes :
        LET early == WithdrawChecksNow(p, r, nh, denomination + 1)
            run   == withdraw_run(nullifiers, lamports, denomination, early,
                                  nh, denomination + 1, None, None, None)
        IN  /\ early = "FeeExceedsDenomination"
            /\ run.nullifiers = nullifiers

\* C26 (amended): the nullifier record is created by the account constraints
\* before the handler runs, and the fee check is the first check of the
\* handler: a withdraw with fee > denomination and a spent nullifier_hash fails
\* on the creation of the record, with nothing created or paid; with a fresh
\* nullifier_hash it fails with FeeExceedsDenomination whatever its root and
\* proof, the record created and its rent paid but nothing debited from the
\* vault; the failed transaction leaves no change.
C26_FeeCheckFirstInHandler ==
    /\ [](\A p \in ProofKinds, r \in RootInputs, nh \in NullifierHashes :
             LET early == WithdrawChecksNow(p, r, nh, denomination + 1)
                 run   == withdraw_run(nullifiers, lamports, denomination, early,
                                       nh, denomination + 1, None, None, None)
             IN  IF nh \in nullifiers
                 THEN /\ early = "AccountAlreadyInUse"
                      /\ run.nullifiers = nullifiers
                      /\ run.lamports = lamports
                 ELSE /\ early = "FeeExceedsDenomination"
                      /\ nh \in run.nullifiers
                      /\ run.lamports[PayerKey] = lamports[PayerKey] - NullifierRent
                      /\ run.lamports[VaultPDA] = lamports[VaultPDA])
    /\ [][(last'.op = "withdraw" /\ last'.err = "FeeExceedsDenomination")
            => /\ nullifiers' = nullifiers
               /\ lamports' = lamports
               /\ UNCHANGED <<pool, history>>]_vars

\* With one nullifier_hash spent and the other fresh, a withdraw was refused
\* for its fee.
C26_Witness ==
    /\ Cardinality(nullifiers) = 1
    /\ last.op = "withdraw"
    /\ last.err = "FeeExceedsDenomination"

\* ----------------------------------------------------------------- C27
\* C27: withdraw and migrate_to_vault leave the tree (filled_subtrees, zeros,
\* current_root, next_index), roots and current_root_index as they were; a
\* step that changes any of them is a successful deposit.
C27_PoolStateFrame ==
    /\ [][last'.op \in {"withdraw", "migrate_to_vault"}
            => UNCHANGED <<merkle_tree, roots, current_root_index>>]_vars
    /\ [][<<merkle_tree, roots, current_root_index>>'
             # <<merkle_tree, roots, current_root_index>>
            => last'.op = "deposit" /\ last'.err = "Ok"]_vars

\* A withdrawal has succeeded on a pool whose tree holds two leaves and whose
\* ring has advanced twice.
C27_Witness ==
    /\ WithdrawOk
    /\ merkle_tree.next_index = 2
    /\ current_root_index = 2
    /\ roots[current_root_index + 1] = merkle_tree.current_root

\* ----------------------------------------------------------------- C28
\* C28: every successful deposit sets current_root_index to
\* (old current_root_index + 1) mod ROOT_HISTORY_SIZE and writes the new tree
\* root into roots[current_root_index], leaving the other entries as they
\* were; current_root_index is in 0..ROOT_HISTORY_SIZE - 1 in every state.
C28_RingAdvance ==
    /\ [](current_root_index \in 0..(ROOT_HISTORY_SIZE - 1))
    /\ [][(last'.op = "deposit" /\ last'.err = "Ok")
            => /\ current_root_index' = (current_root_index + 1) % ROOT_HISTORY_SIZE
               /\ roots'[current_root_index' + 1] = merkle_tree'.current_root
               /\ \A i \in 0..(ROOT_HISTORY_SIZE - 1) :
                     i # current_root_index' => roots'[i + 1] = roots[i + 1]]_vars

\* A successful deposit has taken the cursor from the last slot back to slot
\* 0 and written its root there, the first deposit's root still in slot 1.
C28_Witness ==
    /\ last.op = "deposit"
    /\ last.err = "Ok"
    /\ Len(deposit_roots) = ROOT_HISTORY_SIZE
    /\ current_root_index = 0
    /\ roots[1] = deposit_roots[ROOT_HISTORY_SIZE]
    /\ roots[2] = deposit_roots[1]

\* ----------------------------------------------------------------- C29
\* C29: a fresh tree has zeros[0] = hash_leaf(0^32), zeros[i] =
\* hash_left_right(zeros[i-1], zeros[i-1]) for 1 <= i < LEVELS,
\* filled_subtrees[i] = zeros[i] for every i, current_root = zeros[LEVELS-1]
\* and next_index = 0; the tree before any insert is that tree.
C29_TreeInitialisation ==
    Len(leaves) = 0 =>
        /\ merkle_tree.levels = LEVELS
        /\ merkle_tree.next_index = 0
        /\ merkle_tree.zeros[1] = hash_leaf(ZeroBytes)
        /\ \A i \in 1..(LEVELS - 1) :
              merkle_tree.zeros[i + 1]
                 = hash_left_right(merkle_tree.zeros[i], merkle_tree.zeros[i])
        /\ \A i \in 0..(LEVELS - 1) :
              merkle_tree.filled_subtrees[i + 1] = merkle_tree.zeros[i + 1]
        /\ merkle_tree.current_root = merkle_tree.zeros[LEVELS]

\* The tree as constructed, nothing inserted, its zeros and its root proper
\* digests and not the all-zero value of a hasher error.
C29_Witness ==
    /\ last.op = "initialize"
    /\ Len(leaves) = 0
    /\ merkle_tree.next_index = 0
    /\ \A i \in 1..LEVELS : merkle_tree.zeros[i] # ZeroBytes
    /\ merkle_tree.current_root = zero_at(LEVELS - 1)

\* ----------------------------------------------------------------- C30
\* C30: a successful insert returns the next_index it found and raises
\* next_index by exactly 1; the k-th successful deposit gets leaf index k - 1
\* and its DepositEvent carries that index and its commitment;
\* merkle_tree.next_index equals the number of successful deposits.
C30_LeafIndexing ==
    /\ [](/\ merkle_tree.next_index = Len(leaves)
          /\ \A c \in Commitments \cup {OversizeBytes} :
                insert(merkle_tree, c).ok
                   => /\ insert(merkle_tree, c).index = merkle_tree.next_index
                      /\ insert(merkle_tree, c).tree.next_index
                            = merkle_tree.next_index + 1)
    /\ [][(last'.op = "deposit" /\ last'.err = "Ok")
            => /\ Len(leaves') = Len(leaves) + 1
               /\ last'.event = DepositEvent(leaves'[Len(leaves')], Len(leaves') - 1)
               /\ last'.event.leaf_index = merkle_tree.next_index
               /\ merkle_tree'.next_index = merkle_tree.next_index + 1]_vars

\* The third successful deposit has been given leaf index 2.
C30_Witness ==
    /\ last.op = "deposit"
    /\ last.err = "Ok"
    /\ Len(leaves) = 3
    /\ last.event.leaf_index = 2
    /\ last.event.commitment = leaves[3]

\* ----------------------------------------------------------------- C31
\* C31: a withdraw that reaches the payout with the vault able to pay runs the
\* relayer checks and sends fee to the relayer account exactly when a relayer
\* is given and fee > 0.  With fee = 0 or no relayer it returns Ok whatever
\* the relayer, also when relayer = recipient or no relayer account is
\* supplied, and the vault pays the recipient account alone; with a relayer
\* and fee > 0 it returns one of the three relayer errors or pays fee to the
\* relayer account.
C31_FeeTransferCondition ==
    /\ [](lamports[VaultPDA] >= VaultRent + denomination
            => \A f \in 0..denomination, rc \in Keys, ra \in Keys,
                  rl \in Keys \cup {None}, rla \in Keys \cup {None} :
                 LET late  == withdraw_payout_checks(lamports, denomination, f,
                                                     rc, ra, rl, rla)
                     after == withdraw_transfers(lamports, denomination, f, ra, rl, rla)
                     paid  == [k \in Keys |->
                                 lamports[k] + (IF k = ra THEN denomination - f ELSE 0)]
                 IN  IF rl # None /\ f > 0
                     THEN /\ late \in RelayerBranchErrors \cup {"Ok"}
                          /\ late = "RecipientCannotBeRelayer" <=> rc = rl
                          /\ late = "RelayerAccountMissing" <=> (rc # rl /\ rla = None)
                          /\ late = "RelayerMismatch"
                                <=> (rc # rl /\ rla # None /\ rla # rl)
                          /\ late = "Ok"
                                => /\ after[VaultPDA] = lamports[VaultPDA] - denomination
                                   /\ \A k \in Keys :
                                         after[k] = paid[k] + (IF k = rl THEN f ELSE 0)
                     ELSE /\ late = "Ok"
                          /\ after[VaultPDA] = lamports[VaultPDA] - (denomination - f)
                          /\ \A k \in Keys : after[k] = paid[k])
    /\ [][(last'.op = "withdraw" /\ last'.err = "Ok"
             /\ (last'.event.relayer = None \/ last'.event.fee = 0))
            => lamports[VaultPDA] - lamports'[VaultPDA]
                  = denomination - last'.event.fee]_vars

\* A withdrawal with fee = 0 whose relayer is its recipient has succeeded.
C31_Witness ==
    /\ WithdrawOk
    /\ last.event.fee = 0
    /\ last.event.relayer = last.event.to

\* ----------------------------------------------------------------- C32
\* C32: for every u64 denomination and every u64 fee that passes the fee
\* check, denomination - fee does not underflow and amount + fee is the
\* denomination, without overflow; with fee = denomination the amount is 0,
\* no lamports go to the recipient account, and the withdraw can succeed.
C32_PayoutArithmetic ==
    /\ [](\A f \in 0..U64_MAX :
             fee_within_denomination(f, denomination)
                => /\ denomination - f >= 0
                   /\ u64_sub(denomination, f) = denomination - f
                   /\ u64_sub(denomination, f) + f <= U64_MAX
                   /\ u64_add(u64_sub(denomination, f), f) = denomination)
    /\ [](/\ u64_sub(denomination, denomination) = 0
          /\ \A ra \in Keys :
                recipient_paid(lamports, denomination, denomination, ra)
                   = nullifier_funded(lamports))
    /\ [][(last'.op = "withdraw" /\ last'.err = "Ok")
            => /\ last'.event.fee <= denomination
               /\ lamports[VaultPDA] - lamports'[VaultPDA] <= denomination
               /\ (last'.event.fee = denomination /\ last'.event.relayer = None)
                     => \A k \in Keys \cup {VaultPDA} : lamports'[k] = lamports[k]]_vars

\* In a pool of the largest denomination a withdrawal with fee = denomination
\* has succeeded.
C32_Witness ==
    /\ denomination = U64_MAX
    /\ WithdrawOk
    /\ last.event.fee = denomination

\* ----------------------------------------------------------------- C33
\* C33: prepare_public_inputs returns exactly 8 values of FIELD_BYTES bytes,
\* in the order root, nullifier_hash, recipient high, recipient low, relayer
\* high, relayer low, fee, refund; each half is zeros followed by half of the
\* address; fee and refund are zeros followed by the u64 in big-endian, whose
\* decoding gives the value back; an absent relayer is encoded as the all-zero
\* address.
from_be_bytes(bytes) ==
    LET RECURSIVE value_of(_)
        value_of(n) == IF n = 0 THEN 0 ELSE 2 * value_of(n - 1) + bytes[n]
    IN  value_of(Len(bytes))

C33_PublicInputLayout ==
    last.op = "prepare_public_inputs" =>
        LET e  == last.event
            in == e.inputs
            rl == IF e.relayer = NoPubkey THEN [i \in 1..FIELD_BYTES |-> 0] ELSE e.relayer
            pad == FIELD_BYTES - U64_BITS
        IN  /\ Len(in) = 8
            /\ \A k \in 1..8 : Len(in[k]) = FIELD_BYTES
            /\ in[1] = e.root
            /\ in[2] = e.nullifier_hash
            /\ \A i \in 1..HALF_BYTES :
                  /\ in[3][i] = 0 /\ in[3][HALF_BYTES + i] = e.recipient[i]
                  /\ in[4][i] = 0 /\ in[4][HALF_BYTES + i] = e.recipient[HALF_BYTES + i]
                  /\ in[5][i] = 0 /\ in[5][HALF_BYTES + i] = rl[i]
                  /\ in[6][i] = 0 /\ in[6][HALF_BYTES + i] = rl[HALF_BYTES + i]
            /\ \A i \in 1..pad : in[7][i] = 0 /\ in[8][i] = 0
            /\ from_be_bytes(SubSeq(in[7], pad + 1, FIELD_BYTES)) = e.fee
            /\ from_be_bytes(SubSeq(in[8], pad + 1, FIELD_BYTES)) = e.refund
            /\ e.relayer = NoPubkey
                  => in[5] = in[6] /\ \A i \in 1..FIELD_BYTES : in[5][i] = 0

\* The inputs of a withdraw without relayer, with a fee and a refund whose
\* big-endian and little-endian digits differ, have been prepared.
C33_Witness ==
    /\ last.op = "prepare_public_inputs"
    /\ last.event.relayer = NoPubkey
    /\ last.event.fee = 1
    /\ last.event.refund = U64_MAX - 1
    /\ last.event.inputs[3] # last.event.inputs[4]

C35_BadRecipient ==
    /\ [](\A f \in 0..denomination, rc \in Keys, rl \in Keys \cup {None},
             rla \in Keys \cup {None}, nh \in NullifierHashes \ nullifiers :
             LET late == withdraw_payout_checks(lamports, denomination, f, rc,
                                                ProgramKey, rl, rla)
                 run  == withdraw_run(nullifiers, lamports, denomination, late,
                                      nh, f, ProgramKey, rl, rla)
             IN  /\ late = "BadRecipient"
                 /\ run.lamports[VaultPDA] = lamports[VaultPDA]
                 /\ run.lamports[ProgramKey] = lamports[ProgramKey])
    /\ [][(last'.op = "withdraw" /\ last'.err = "BadRecipient")
            => UNCHANGED <<pool, nullifiers, lamports, history>>]_vars
    /\ [](lamports[ProgramKey] = 0)

\* With the vault able to pay, a withdraw that passed the proof check was
\* refused for its executable recipient account.
C35_Witness ==
    /\ lamports[VaultPDA] >= VaultRent + denomination
    /\ nullifiers # NullifierHashes
    /\ last.op = "withdraw"
    /\ last.err = "BadRecipient"

\* ----------------------------------------------------------------- C36
\* C36: after k >= 1 inserts the witness get_proof(k - 1) of the leaf inserted
\* last verifies against the current root.
C36_NewestWitnessVerifies ==
    Len(leaves) >= 1 =>
        MerkleTree_verify_proof(get_root(merkle_tree), leaves[Len(leaves)],
                                get_proof(merkle_tree, Len(leaves) - 1),
                                Len(leaves) - 1)

\* The tree is full, its last leaf a right child at every level, and the
\* leaves are not all the same.
C36_Witness ==
    /\ Len(leaves) = Capacity
    /\ merkle_tree.next_index = Capacity
    /\ leaves[Capacity] # leaves[Capacity - 1]
    /\ get_proof(merkle_tree, Capacity - 1) = merkle_tree.filled_subtrees
    /\ merkle_tree.current_root # ZeroBytes

\* ----------------------------------------------------------------- C37
\* C37: in every state with at least one successful deposit,
\* roots[current_root_index] is merkle_tree.current_root, and is_known_root
\* accepts the current root.
C37_NewestEntryIsLiveRoot ==
    Len(leaves) >= 1 =>
        /\ roots[current_root_index + 1] = merkle_tree.current_root
        /\ is_known_root(roots, current_root_index, get_root(merkle_tree))

\* The ring has wrapped, the cursor is past slot 0 again, and a withdrawal
\* against the live root has succeeded.
C37_Witness ==
    /\ Len(leaves) = ROOT_HISTORY_SIZE + 1
    /\ current_root_index = 1
    /\ roots[2] = merkle_tree.current_root
    /\ roots[2] # deposit_roots[1]
    /\ WithdrawOk

\* ----------------------------------------------------------------- C38
\* C38: before the first deposit the ring is all-zero with current_root_index
\* = 0, and a withdraw that reaches the root check fails with UnknownRoot for
\* every root, the root of the empty tree included; the first deposit's root
\* is written to slot 1, and slot 0 stays all-zero until deposit number
\* ROOT_HISTORY_SIZE writes it.
C38_EmptyRing ==
    /\ Len(leaves) = 0
          => /\ current_root_index = 0
             /\ \A i \in 1..ROOT_HISTORY_SIZE : roots[i] = ZeroBytes
             /\ merkle_tree.current_root \in RootInputs
             /\ \A p \in ProofKinds, r \in RootInputs, nh \in NullifierHashes,
                   f \in 0..denomination :
                   WithdrawChecksNow(p, r, nh, f) = "UnknownRoot"
    /\ Len(leaves) \in 1..ROOT_HISTORY_SIZE => roots[2] = deposit_roots[1]
    /\ Len(leaves) < ROOT_HISTORY_SIZE => roots[1] = ZeroBytes
    /\ Len(leaves) = ROOT_HISTORY_SIZE
          => roots[1] = deposit_roots[ROOT_HISTORY_SIZE] /\ roots[1] # ZeroBytes

\* Before any deposit a withdraw was refused for its root.
C38_Witness ==
    /\ Len(leaves) = 0
    /\ merkle_tree.next_index = 0
    /\ last.op = "withdraw"
    /\ last.err = "UnknownRoot"

\* ----------------------------------------------------------------- C39
\* C39: the vault holds at least its rent-exempt minimum and the denomination
\* of every deposit not yet withdrawn; a successful deposit credits the vault
\* by exactly the denomination, a successful withdrawal debits it by at most
\* the denomination, and by denomination - fee when fee > 0 and no relayer is
\* given.
C39_Solvency ==
    /\ [](lamports[VaultPDA]
             >= minimum_balance(0) + denomination * (Len(leaves) - Len(withdrawn)))
    /\ [][(last'.op = "deposit" /\ last'.err = "Ok")
            => lamports'[VaultPDA] = lamports[VaultPDA] + denomination]_vars
    /\ [][(last'.op = "withdraw" /\ last'.err = "Ok")
            => /\ lamports[VaultPDA] - lamports'[VaultPDA] \in 0..denomination
               /\ (last'.event.relayer = None /\ last'.event.fee > 0)
                     => lamports[VaultPDA] - lamports'[VaultPDA]
                           = denomination - last'.event.fee]_vars

\* Every deposit has been withdrawn, one of the withdrawals with a fee and no
\* relayer, and the fee is still in the vault.
C39_Witness ==
    /\ Len(leaves) >= 1
    /\ Len(withdrawn) = Len(leaves)
    /\ lamports[VaultPDA] > minimum_balance(0)
    /\ WithdrawOk
    /\ last.event.relayer = None
    /\ last.event.fee > 0

\* ----------------------------------------------------------------- C40
\* C40: initialize stores the verifying-key blob it is given without decoding
\* it, and no step replaces the stored blob; while the stored blob fails
\* deserialize_verifying_key, every withdraw with a known root that reaches
\* the decoding fails with InvalidVerifyingKey, no withdrawal ever succeeds,
\* and deposits succeed and credit the vault as in any other pool.
C40_UnvalidatedKey ==
    /\ [](last.op = "initialize" => last.err \in {"Ok", "AccountAlreadyInUse"})
    /\ [][verifying_key' = verifying_key]_vars
    /\ [](~deserialize_verifying_key(verifying_key)
            => /\ nullifiers = {}
               /\ withdrawn = <<>>
               /\ last.op = "withdraw" => last.err # "Ok"
               /\ \A p \in ProofKinds, r \in RootInputs, nh \in NullifierHashes,
                     f \in 0..denomination :
                     is_known_root(roots, current_root_index, r)
                        => WithdrawChecksNow(p, r, nh, f) = "InvalidVerifyingKey"
               /\ \A k \in Depositors, c \in Commitments :
                     (lamports[k] >= denomination /\ Len(leaves) < Capacity)
                        => deposit_result(lamports, merkle_tree, k, c) = "Ok"
               /\ lamports[VaultPDA] >= minimum_balance(0) + denomination * Len(leaves))
    /\ [][(~deserialize_verifying_key(verifying_key)
             /\ last'.op = "deposit" /\ last'.err = "Ok")
            => /\ lamports'[VaultPDA] = lamports[VaultPDA] + denomination
               /\ Len(leaves') = Len(leaves) + 1]_vars

\* A pool whose stored blob does not decode has taken deposits up to the
\* tree's capacity, and a withdraw with a known root has just been refused
\* with InvalidVerifyingKey.
C40_Witness ==
    /\ ~deserialize_verifying_key(verifying_key)
    /\ Len(leaves) = Capacity
    /\ lamports[VaultPDA] = minimum_balance(0) + denomination * Capacity
    /\ last.op = "withdraw"
    /\ last.err = "InvalidVerifyingKey"

====
